---- MODULE Spec2Model ----
(***************************************************************************)
(* Model of npystream: the .npy header codec (src/src/npystream.cpp) and   *)
(* the streaming writer NpyStream (src/include/npystream/npystream.hpp).   *)
(*                                                                         *)
(* Bytes are naturals 0..255, byte strings are sequences of bytes.  A file *)
(* offset o (0-based, as in the C++ code) is element o+1 of the sequence.  *)
(* A uint64_t that is rendered in decimal is kept as three base-10^7 limbs *)
(* <<hi, mid, lo>> (value hi*10^14 + mid*10^7 + lo), so that the whole     *)
(* range 0 .. 2^64-1 is representable.                                     *)
(***************************************************************************)
EXTENDS Integers, Sequences, FiniteSets, TLC

\* ------------------------------------------------------------------ bounds

\* most records one stream accepts before it is closed
MaxRecords == 9
\* most elements of one write(std::span) call
MaxBlock == 2
\* most records one stream accepts when I/O operations can fail
MaxIoRecords == 3
\* a call's first, ..., MaxIoOps-th I/O operation can be the one that fails
MaxIoOps == 3
\* unpadded dictionary lengths 0..MaxSmallDict are tried on finalize_header
MaxSmallDict == 40
\* unpadded dictionary lengths DictEdge-MaxEdgeDist .. DictEdge+MaxEdgeDist too
MaxEdgeDist == 20

\* ------------------------------------------------------- byte-string helpers

Space == 32
Newline == 10
Quote == 39

\* n copies of byte b: std::vector::insert(pos, n, b)
Fill(n, b) == [i \in 1..n |-> b]

\* one decimal digit as ASCII
DigitChar(d) == 48 + d

RECURSIVE Dec(_)
\* std::to_string of a natural below 2^31
Dec(n) == IF n < 10 THEN <<DigitChar(n)>> ELSE Dec(n \div 10) \o <<DigitChar(n % 10)>>

\* the seven digits of a lower limb, leading zeros kept
Pad7(n) == LET d == Dec(n) IN Fill(7 - Len(d), DigitChar(0)) \o d

\* std::to_string(uint64_t) on the limb representation
ToStringU64(k) ==
  IF k[1] > 0 THEN Dec(k[1]) \o Pad7(k[2]) \o Pad7(k[3])
  ELSE IF k[2] > 0 THEN Dec(k[2]) \o Pad7(k[3])
  ELSE Dec(k[3])

\* a small natural as uint64_t
U64Of(n) == <<0, 0, n>>

\* std::numeric_limits<uint64_t>::max() = 18446744073709551615
UInt64Max == <<184467, 4407370, 9551615>>

\* std::numeric_limits<uint32_t>::max() = 4294967295
UInt32Max == <<0, 429, 4967295>>

\* the number of decimal digits of UInt64Max
MaxDigits == 20

\* ------------------------------------------------------------ header codec

\* '<' : native_endian_symbol on a little-endian build
NativeEndianSymbol == 60

\* append(vec, (uint16_t) n): the two bytes of n, low byte first
AppendU16(n) == <<n % 256, (n \div 256) % 256>>

Ok(bytes) == [err |-> "none", bytes |-> bytes]
Err(e) == [err |-> e, bytes |-> <<>>]

\* 0xffff, the largest dictionary finalize_header accepts
MaxDictSize == 65535

\* 16 - (10 + dict.size()) % 16
PadRemainder(d) == 16 - ((10 + d) % 16)

\* finalize_header as a bug would write it: pads to a multiple of 16 without
\* counting the 10 preamble bytes
FinalizeHeaderNoPreamble(dict) ==
  LET remainder == 16 - (Len(dict) % 16)
      padded == dict \o Fill(remainder - 1, Space) \o <<Newline>>
  IN  IF Len(padded) > MaxDictSize THEN Err("HeaderTooLarge")
      ELSE Ok(<<147, 78, 85, 77, 80, 89, 1, 0>> \o AppendU16(Len(padded)) \o padded)

\* finalize_header
FinalizeHeader(dict) ==
  LET remainder == PadRemainder(Len(dict))
      inserted == dict \o Fill(remainder, Space)
      padded == [inserted EXCEPT ![Len(inserted)] = Newline]
  IN  IF Len(padded) > MaxDictSize THEN Err("HeaderTooLarge")
      ELSE Ok(<<147, 78, 85, 77, 80, 89, 1, 0>> \o AppendU16(Len(padded)) \o padded)

RECURSIVE ShapeTail(_, _)
\* the loop over shape[1..] : ", " + to_string(shape[i])
ShapeTail(shape, i) ==
  IF i > Len(shape) THEN <<>>
  ELSE <<44, 32>> \o ToStringU64(shape[i]) \o ShapeTail(shape, i + 1)

\* ", 'shape': (" ... "), }"
ShapeText(shape) ==
  <<44, 32, 39, 115, 104, 97, 112, 101, 39, 58, 32, 40>>
  \o ToStringU64(shape[1]) \o ShapeTail(shape, 2)
  \o (IF Len(shape) = 1 THEN <<44>> ELSE <<>>)
  \o <<41, 44, 32, 125>>

\* "False" for MemoryOrder::C, "True" otherwise
OrderText(memory_order) ==
  IF memory_order = "C" THEN <<70, 97, 108, 115, 101>> ELSE <<84, 114, 117, 101>>

\* "', 'fortran_order': " without the leading quote: ", 'fortran_order': "
FortranKey == <<44, 32, 39, 102, 111, 114, 116, 114, 97, 110, 95, 111, 114, 100, 101, 114, 39, 58, 32>>

RECURSIVE DescrFields(_, _, _, _)
\* the loop over the fields: ('label', '<c8'), ...
DescrFields(labels, dtypes, sizes, i) ==
  IF i > Len(dtypes) THEN <<>>
  ELSE <<40, 39>> \o labels[i] \o <<39, 44, 32, 39>>
       \o <<NativeEndianSymbol, dtypes[i]>> \o Dec(sizes[i]) \o <<39, 41>>
       \o (IF i # Len(dtypes) THEN <<44, 32>> ELSE <<>>)
       \o DescrFields(labels, dtypes, sizes, i + 1)

\* the dictionary text of the structured create_npy_header, before padding
StructuredDict(shape, labels, dtypes, sizes, memory_order) ==
  <<123, 39, 100, 101, 115, 99, 114, 39, 58, 32, 91>>
  \o DescrFields(labels, dtypes, sizes, 1)
  \o (IF Len(dtypes) = 1 THEN <<44>> ELSE <<>>)
  \o <<93>> \o FortranKey \o OrderText(memory_order) \o ShapeText(shape)

\* create_npy_header(shape, labels, dtypes, sizes, memory_order)
CreateNpyHeaderStructured(shape, labels, dtypes, sizes, memory_order) ==
  IF Len(labels) # Len(dtypes) \/ Len(dtypes) # Len(sizes) \/ Len(sizes) # Len(labels)
  THEN Err("LayoutMismatch")
  ELSE FinalizeHeader(StructuredDict(shape, labels, dtypes, sizes, memory_order))

\* the dictionary text of the single-scalar create_npy_header, before padding
ScalarDict(shape, dtype, wordsize, memory_order) ==
  <<123, 39, 100, 101, 115, 99, 114, 39, 58, 32, 39>>
  \o <<NativeEndianSymbol, dtype>> \o Dec(wordsize)
  \o <<Quote>> \o FortranKey \o OrderText(memory_order) \o ShapeText(shape)

\* create_npy_header(shape, dtype, wordsize, memory_order)
CreateNpyHeaderScalar(shape, dtype, wordsize, memory_order) ==
  FinalizeHeader(ScalarDict(shape, dtype, wordsize, memory_order))

\* ------------------------------------------------------------------ wrap_up

\* the insert as a bug would write it: the padding goes after the newline
InsertAtEnd(h, n) == h \o Fill(n, Space)

\* the insert as a bug would write it: the header is filled up with newlines
InsertNewlinesBeforeLast(h, n) ==
  SubSeq(h, 1, Len(h) - 1) \o Fill(n, Newline) \o <<h[Len(h)]>>

\* updated_header.insert(std::prev(updated_header.end()), n, ' ')
InsertBeforeLast(h, n) ==
  SubSeq(h, 1, Len(h) - 1) \o Fill(n, Space) \o <<h[Len(h)]>>

\* lines 35-38: len_upper is the byte at offset 7, len_lower the byte at offset 8
PatchLength(h) ==
  [h EXCEPT ![8] = ((Len(h) - 10) \div 256) % 256, ![9] = (Len(h) - 10) % 256]

\* the header of wrap_up's first step: rendered for shape = [values_written]
UpdatedHeader(values_written, labels, dtypes, sizes) ==
  IF Len(labels) = 0
  THEN CreateNpyHeaderScalar(<<values_written>>, dtypes[1], sizes[1], "C")
  ELSE CreateNpyHeaderStructured(<<values_written>>, labels, dtypes, sizes, "C")

\* wrap_up up to its assertion: what it is about to write, or how it stops.
\*   "thrown"    create_npy_header threw
\*   "underflow" header_end_pos - updated_header.size() wrapped around (the
\*               insert of about 2^64 bytes cannot succeed)
\*   "assert"    the assertion updated_header.size() == header_end_pos failed
PatchedHeader(values_written, header_end_pos, labels, dtypes, sizes) ==
  LET fresh == UpdatedHeader(values_written, labels, dtypes, sizes)
  IN  IF fresh.err # "none" THEN [stop |-> "thrown", bytes |-> <<>>]
      ELSE IF header_end_pos < Len(fresh.bytes) THEN [stop |-> "underflow", bytes |-> <<>>]
      ELSE LET len_missing_padding == header_end_pos - Len(fresh.bytes)
               patched == PatchLength(InsertBeforeLast(fresh.bytes, len_missing_padding))
           IN  IF Len(patched) # header_end_pos THEN [stop |-> "assert", bytes |-> patched]
               ELSE [stop |-> "none", bytes |-> patched]

\* ------------------------------------------------------------ std::ofstream

\* The stream object together with the file behind it:
\*   exists, bytes   the file at the path
\*   is_open, good   the stream's state (good = no failbit/badbit)
\*   pos             the put position
\*   fail_after      the environment's fault for the running call: the number of
\*                   I/O operations that still succeed before one fails, -1 for
\*                   none.  It is -1 between calls.
NoFault == 0 - 1

\* one I/O operation is attempted on a good stream
Spend(f) == IF f.fail_after > 0 THEN [f EXCEPT !.fail_after = @ - 1] ELSE f

\* file.open(path, std::ios_base::binary): creates or truncates
FileOpen(f) ==
  IF f.fail_after = 0 THEN [f EXCEPT !.good = FALSE]
  ELSE Spend([f EXCEPT !.is_open = TRUE, !.exists = TRUE, !.bytes = <<>>, !.pos = 0])

\* the bytes of the file after data is written at offset pos
Overwrite(bytes, pos, data) ==
  LET end == IF pos + Len(data) > Len(bytes) THEN pos + Len(data) ELSE Len(bytes)
  IN  [i \in 1..end |-> IF i > pos /\ i <= pos + Len(data) THEN data[i - pos] ELSE bytes[i]]

\* file.write(data, n): nothing happens on a stream that is not good; a write
\* of no bytes cannot fail; a failing write sets badbit
FileWrite(f, data) ==
  IF ~f.good \/ Len(data) = 0 THEN f
  ELSE IF f.fail_after = 0 THEN [f EXCEPT !.good = FALSE]
  ELSE Spend([f EXCEPT !.bytes = Overwrite(f.bytes, f.pos, data), !.pos = f.pos + Len(data)])

\* file.seekp(0)
FileSeekp0(f) ==
  IF ~f.good THEN f
  ELSE IF f.fail_after = 0 THEN [f EXCEPT !.good = FALSE]
  ELSE Spend([f EXCEPT !.pos = 0])

\* wrap_up as a bug would write it: the header is written at the put position,
\* without the seek
WrapUpNoSeek(f, values_written, header_end_pos, labels, dtypes, sizes) ==
  LET p == PatchedHeader(values_written, header_end_pos, labels, dtypes, sizes)
  IN  IF p.stop # "none" THEN f
      ELSE FileWrite(f, p.bytes)

\* wrap_up(file, ...): returns the file; a stop before the write leaves it as is
WrapUp(f, values_written, header_end_pos, labels, dtypes, sizes) ==
  LET p == PatchedHeader(values_written, header_end_pos, labels, dtypes, sizes)
  IN  IF p.stop # "none" THEN f
      ELSE FileWrite(FileSeekp0(f), p.bytes)

\* ------------------------------------------------- record types and layouts

\* The instantiations NpyStream<T, TArgs...> that are modelled, each given by
\* tuple_info<tuple_type>: data_types (map_type of every field) and
\* element_sizes.
\*   1  NpyStream<std::complex<long double>>          'c' 32
\*   2  NpyStream<int32_t, float>                     'i' 4, 'f' 4
\*   3  NpyStream<uint8_t, ... (12 times)>            'u' 1, ...
\*   4  NpyStream<std::complex<long double>, ... (9 times)>   'c' 32, ...
\*      (a record of 288 bytes: 256 / sum_sizes is 0, the buffer holds 1)
TupleInfo ==
  <<[data_types |-> <<99>>, element_sizes |-> <<32>>],
    [data_types |-> <<105, 102>>, element_sizes |-> <<4, 4>>],
    [data_types |-> [i \in 1..12 |-> 117], element_sizes |-> [i \in 1..12 |-> 1]],
    [data_types |-> [i \in 1..9 |-> 99], element_sizes |-> [i \in 1..9 |-> 32]]>>

Types == 1..Len(TupleInfo)

RECURSIVE SumTo(_, _)
\* element_sizes[1] + ... + element_sizes[n]
SumTo(element_sizes, n) == IF n = 0 THEN 0 ELSE SumTo(element_sizes, n - 1) + element_sizes[n]

\* tuple_info<tuple_type>::sum_sizes, the record stride
SumSizes(t) == SumTo(TupleInfo[t].element_sizes, Len(TupleInfo[t].element_sizes))

\* tuple_info<U>::offsets[k]: sequential packing, no padding (k counted from 1)
Offset(t, k) == SumTo(TupleInfo[t].element_sizes, k - 1)

\* std::tuple_size_v<tuple_type>
TupleSize(t) == Len(TupleInfo[t].data_types)

\* buffer_capacity = std::max<size_t>(1, 256 / sum_sizes)
BufferCapacity(t) == IF 256 \div SumSizes(t) > 1 THEN 256 \div SumSizes(t) ELSE 1

\* the object representation memcpy reads: size bytes, the value in the first
ObjRep(v, size) == [j \in 1..size |-> IF j = 1 THEN v ELSE 0]

\* the tuple a caller passes for value v: field i holds v + i - 1
TupleOf(t, v) == [i \in 1..TupleSize(t) |-> v + i - 1]

\* fill(tup, slot): every field's bytes copied to its offset in the slot
FillSlot(t, tup) ==
  [j \in 1..SumSizes(t) |->
     LET k == CHOOSE i \in 1..TupleSize(t) :
                Offset(t, i) < j /\ j <= Offset(t, i) + TupleInfo[t].element_sizes[i]
     IN  ObjRep(tup[k], TupleInfo[t].element_sizes[k])[j - Offset(t, k)]]

RECURSIVE Flatten(_, _)
\* the first n elements of an array of byte arrays as one byte string
Flatten(arr, n) == IF n = 0 THEN <<>> ELSE Flatten(arr, n - 1) \o arr[n]

\* std::format("f{}", i) for i = 0 .. size-1
DefaultLabels(t) == [i \in 1..TupleSize(t) |-> <<102>> \o Dec(i - 1)]

\* a label of 65535 bytes "x": no dictionary that names it fits the header
HugeLabel == Fill(MaxDictSize, 120)

\* the label containers a caller passes to the second constructor
LabelChoices ==
  {<<>>, << <<97>> >>, << <<97>>, <<98>> >>, << <<97>>, <<98>>, <<99>> >>,
   << HugeLabel >>, << <<97>>, HugeLabel >>}

\* --------------------------------------------------------------- the state

VARIABLES
  pc,              \* "unopened", "open", "closed", "failed" (the constructor
                   \* threw), "aborted" (the destructor did not return)
  typ,             \* the instantiation, an index of TupleInfo
  labels,          \* NpyStream::labels
  file,            \* NpyStream::file and the file at the path
  header_end_pos,  \* NpyStream::header_end_pos
  values_written,  \* NpyStream::values_written
  buffer_size,     \* NpyStream::buffer_size
  buffer,          \* NpyStream::buffer
  result,          \* what the last call reported to its caller
  op,              \* the last call
  sent,            \* history: the bytes of all records passed in, in call order
  cin,             \* header codec, called on its own: the arguments
  cout             \* header codec, called on its own: the result

vars == <<pc, typ, labels, file, header_end_pos, values_written, buffer_size,
          buffer, result, op, sent, cin, cout>>

streamVars == <<pc, typ, labels, file, header_end_pos, values_written,
                buffer_size, buffer, result, op, sent>>

\* what a file left at the path by an earlier program holds
OldBytes == <<111, 108, 100>>

\* the faults the environment can schedule for one call: none, or the first,
\* second, ... I/O operation of the call fails
Faults == {NoFault} \cup 0..(MaxIoOps - 1)
NoFaults == {NoFault}

\* the members of the stream object that the operations change
Self == [file |-> file, values_written |-> values_written,
         buffer_size |-> buffer_size, buffer |-> buffer]

\* the members after a call; the fault schedule ends with the call
Becomes(o) ==
  /\ file' = [o.file EXCEPT !.fail_after = NoFault]
  /\ values_written' = o.values_written
  /\ buffer_size' = o.buffer_size
  /\ buffer' = o.buffer

Scheduled(o, fault) == [o EXCEPT !.file.fail_after = fault]

\* ------------------------------------------------------------ NpyStream

\* init as a bug would write it: the placeholder is rendered for the largest
\* 32-bit count
InitHeaderMax32(t, labs) ==
  IF Len(labs) = 0
  THEN IF TupleSize(t) = 1
       THEN CreateNpyHeaderScalar(<<UInt32Max>>, TupleInfo[t].data_types[1],
                                  TupleInfo[t].element_sizes[1], "C")
       ELSE Err("LayoutMismatch")
  ELSE IF Len(labs) # TupleSize(t) THEN Err("LayoutMismatch")
       ELSE CreateNpyHeaderStructured(<<UInt32Max>>, labs, TupleInfo[t].data_types,
                                      TupleInfo[t].element_sizes, "C")

\* init as a bug would write it: an empty label container is taken for the
\* unlabelled layout whatever the number of fields
InitHeaderEmptyUnchecked(t, labs) ==
  IF Len(labs) = 0
  THEN CreateNpyHeaderScalar(<<UInt64Max>>, TupleInfo[t].data_types[1],
                             TupleInfo[t].element_sizes[1], "C")
  ELSE IF Len(labs) # TupleSize(t) THEN Err("LayoutMismatch")
       ELSE CreateNpyHeaderStructured(<<UInt64Max>>, labs, TupleInfo[t].data_types,
                                      TupleInfo[t].element_sizes, "C")

\* init, lines 159-181: the placeholder header, or the exception thrown
InitHeader(t, labs) ==
  IF Len(labs) = 0
  THEN IF TupleSize(t) = 1
       THEN CreateNpyHeaderScalar(<<UInt64Max>>, TupleInfo[t].data_types[1],
                                  TupleInfo[t].element_sizes[1], "C")
       ELSE Err("LayoutMismatch")
  ELSE IF Len(labs) # TupleSize(t) THEN Err("LayoutMismatch")
       ELSE CreateNpyHeaderStructured(<<UInt64Max>>, labs, TupleInfo[t].data_types,
                                      TupleInfo[t].element_sizes, "C")

\* the fill as a bug would write it: the length field is kept
ZeroFrom10(header) == [i \in 1..Len(header) |-> IF i > 10 THEN 0 ELSE header[i]]

\* std::fill(std::next(header.begin(), 8), header.end(), 0)
ZeroFrom8(header) == [i \in 1..Len(header) |-> IF i > 8 THEN 0 ELSE header[i]]

\* init, lines 183-186, on a header that was rendered
InitFile(f, header) == FileWrite(FileOpen(f), ZeroFrom8(header))

\* init as a bug would write it: the file is opened before the header is
\* rendered
NpyInitOpensFirst(f, t, labs) ==
  LET opened == FileOpen(f)
      header == InitHeader(t, labs)
  IN  IF header.err # "none"
      THEN [err |-> header.err, file |-> opened, header_end_pos |-> 0]
      ELSE [err |-> "none", file |-> FileWrite(opened, ZeroFrom8(header.bytes)),
            header_end_pos |-> Len(header.bytes)]

\* init: what it throws, the file it leaves and header_end_pos.  The header is
\* rendered first; an exception leaves before file.open is reached.
NpyInit(f, t, labs) ==
  LET header == InitHeader(t, labs)
  IN  IF header.err # "none"
      THEN [err |-> header.err, file |-> f, header_end_pos |-> 0]
      ELSE [err |-> "none", file |-> InitFile(f, header.bytes),
            header_end_pos |-> Len(header.bytes)]

\* flush_buffer as a bug would write it: the whole array goes out
FlushWholeBuffer(o) ==
  [o EXCEPT !.file = FileWrite(o.file, Flatten(o.buffer, Len(o.buffer))),
            !.buffer_size = 0]

\* flush_buffer as a bug would write it: the put position is taken back to
\* the start of the file before the write
FlushBufferRewinds(o) ==
  [o EXCEPT !.file = FileWrite(FileSeekp0(o.file), Flatten(o.buffer, o.buffer_size)),
            !.buffer_size = 0]

\* flush_buffer
FlushBuffer(o) ==
  [o EXCEPT !.file = FileWrite(o.file, Flatten(o.buffer, o.buffer_size)),
            !.buffer_size = 0]

\* operator<< as a bug would write it: the buffer is flushed when the next
\* record finds it full, not when a record fills it
AppendRecordLateFlush(o, t, tup) ==
  LET flushed == IF o.buffer_size = BufferCapacity(t) THEN FlushBuffer(o) ELSE o
      filled == [flushed EXCEPT !.buffer[flushed.buffer_size + 1] = FillSlot(t, tup),
                                !.buffer_size = flushed.buffer_size + 1]
  IN  [filled EXCEPT !.values_written = @ + 1]

\* operator<<(Tup const&)
AppendRecord(o, t, tup) ==
  LET filled == [o EXCEPT !.buffer[o.buffer_size + 1] = FillSlot(t, tup),
                          !.buffer_size = o.buffer_size + 1]
      flushed == IF filled.buffer_size = BufferCapacity(t) THEN FlushBuffer(filled)
                 ELSE filled
  IN  [flushed EXCEPT !.values_written = @ + 1]

\* the memory a std::span<T const> of scalars covers
SpanBytes(t, data) ==
  Flatten([i \in 1..Len(data) |-> ObjRep(data[i], TupleInfo[t].element_sizes[1])], Len(data))

\* write(span) as a bug would write it: the call is counted, not its elements
WriteSpanCountsCall(o, t, data) ==
  LET flushed == IF o.buffer_size # 0 THEN FlushBuffer(o) ELSE o
  IN  [flushed EXCEPT !.file = FileWrite(flushed.file, SpanBytes(t, data)),
                      !.values_written = @ + 1]

\* write(span) as a bug would write it: the partially filled buffer is not
\* flushed before the block
WriteSpanNoFlush(o, t, data) ==
  [o EXCEPT !.file = FileWrite(o.file, SpanBytes(t, data)),
            !.values_written = @ + Len(data)]

\* write(std::span<U const>)
WriteSpan(o, t, data) ==
  LET flushed == IF o.buffer_size # 0 THEN FlushBuffer(o) ELSE o
  IN  [flushed EXCEPT !.file = FileWrite(flushed.file, SpanBytes(t, data)),
                      !.values_written = @ + Len(data)]

RECURSIVE WriteRange(_, _, _, _)
\* write(begin, end) over a sequence of tuples: *this << *begin for each
WriteRange(o, t, tups, i) ==
  IF i > Len(tups) THEN o ELSE WriteRange(AppendRecord(o, t, tups[i]), t, tups, i + 1)

\* ~NpyStream as a bug would write it: the header is patched before the
\* buffer is flushed
DestroyWrapUpFirst(o, t, hep, labs) ==
  LET patched == [o EXCEPT !.file = WrapUp(o.file, U64Of(o.values_written), hep, labs,
                                           TupleInfo[t].data_types,
                                           TupleInfo[t].element_sizes)]
  IN  FlushBuffer(patched)

\* ~NpyStream
Destroy(o, t, hep, labs) ==
  LET flushed == FlushBuffer(o)
  IN  [flushed EXCEPT !.file = WrapUp(flushed.file, U64Of(flushed.values_written), hep,
                                      labs, TupleInfo[t].data_types,
                                      TupleInfo[t].element_sizes)]

\* ------------------------------------------------------------------ actions

Init ==
  /\ pc = "unopened"
  /\ typ \in Types
  /\ labels = <<>>
  /\ \E old \in BOOLEAN :
       file = [exists |-> old, bytes |-> IF old THEN OldBytes ELSE <<>>,
               is_open |-> FALSE, good |-> TRUE, pos |-> 0, fail_after |-> NoFault]
  /\ header_end_pos = 0
  /\ values_written = 0
  /\ buffer_size = 0
  /\ buffer = [i \in 1..BufferCapacity(typ) |-> Fill(SumSizes(typ), 0)]
  /\ result = "none"
  /\ op = "none"
  /\ sent = <<>>
  /\ cin = <<>>
  /\ cout = <<>>

\* The caller numbers its records: the n-th record passed in carries the value
\* n, so that any two records of a file differ.
NextValue(i) == (Len(sent) \div SumSizes(typ)) + i

\* the block a caller passes in one write call: n records
Block(n) == [i \in 1..n |-> NextValue(i)]

\* NpyStream(path) and NpyStream(path, labels_)
Construct(faults) ==
  /\ pc = "unopened"
  /\ \E labs \in LabelChoices \cup {IF TupleSize(typ) > 1 THEN DefaultLabels(typ) ELSE <<>>},
        fault \in faults :
       LET done == NpyInit([file EXCEPT !.fail_after = fault], typ, labs)
       IN  /\ labels' = labs
           /\ op' = "construct"
           /\ file' = [done.file EXCEPT !.fail_after = NoFault]
           /\ IF done.err # "none"
              THEN /\ pc' = "failed"
                   /\ result' = done.err
                   /\ UNCHANGED header_end_pos
              ELSE /\ pc' = "open"
                   /\ result' = "ok"
                   /\ header_end_pos' = done.header_end_pos
  /\ UNCHANGED <<typ, values_written, buffer_size, buffer, sent, cin, cout>>

\* stream << tuple
DoAppend(faults, max) ==
  /\ pc = "open"
  /\ values_written < max
  /\ \E fault \in faults :
       Becomes(AppendRecord(Scheduled(Self, fault), typ, TupleOf(typ, NextValue(1))))
  /\ sent' = sent \o FillSlot(typ, TupleOf(typ, NextValue(1)))
  /\ op' = "append"
  /\ result' = "ok"
  /\ UNCHANGED <<pc, typ, labels, header_end_pos, cin, cout>>

\* stream.flush_buffer()
DoFlush(faults) ==
  /\ pc = "open"
  /\ \E fault \in faults : Becomes(FlushBuffer(Scheduled(Self, fault)))
  /\ op' = "flush"
  /\ result' = "ok"
  /\ UNCHANGED <<pc, typ, labels, header_end_pos, sent, cin, cout>>

\* stream.write(span), for single-scalar instantiations only
DoWriteSpan(faults, max) ==
  /\ pc = "open"
  /\ TupleSize(typ) = 1
  /\ \E n \in 0..MaxBlock, fault \in faults :
       /\ values_written + n <= max
       /\ Becomes(WriteSpan(Scheduled(Self, fault), typ, Block(n)))
       /\ sent' = sent \o SpanBytes(typ, Block(n))
  /\ op' = "write_span"
  /\ result' = "ok"
  /\ UNCHANGED <<pc, typ, labels, header_end_pos, cin, cout>>

\* stream.write(begin, end) over tuples
DoWriteRange(faults, max) ==
  /\ pc = "open"
  /\ \E n \in 0..MaxBlock, fault \in faults :
       LET tups == [i \in 1..n |-> TupleOf(typ, NextValue(i))]
       IN  /\ values_written + n <= max
           /\ Becomes(WriteRange(Scheduled(Self, fault), typ, tups, 1))
           /\ sent' = sent \o Flatten([i \in 1..n |-> FillSlot(typ, tups[i])], n)
  /\ op' = "write_range"
  /\ result' = "ok"
  /\ UNCHANGED <<pc, typ, labels, header_end_pos, cin, cout>>

\* the stream goes out of scope: ~NpyStream, then ~std::ofstream closes the file
Close(faults) ==
  /\ pc = "open"
  /\ \E fault \in faults :
       Becomes(Destroy(Scheduled(Self, fault), typ, header_end_pos, labels))
  /\ pc' = IF PatchedHeader(U64Of(values_written), header_end_pos, labels,
                            TupleInfo[typ].data_types, TupleInfo[typ].element_sizes).stop = "none"
           THEN "closed" ELSE "aborted"
  /\ op' = "close"
  /\ result' = "ok"
  /\ UNCHANGED <<typ, labels, header_end_pos, sent, cin, cout>>

\* every I/O operation succeeds
Next ==
  \/ Construct(NoFaults)
  \/ DoAppend(NoFaults, MaxRecords)
  \/ DoFlush(NoFaults)
  \/ DoWriteSpan(NoFaults, MaxRecords)
  \/ DoWriteRange(NoFaults, MaxRecords)
  \/ Close(NoFaults)

Spec == Init /\ [][Next]_vars

\* I/O operations can fail
NextIO ==
  \/ Construct(Faults)
  \/ DoAppend(Faults, MaxIoRecords)
  \/ DoFlush(Faults)
  \/ DoWriteSpan(Faults, MaxIoRecords)
  \/ DoWriteRange(Faults, MaxIoRecords)
  \/ Close(Faults)

SpecIO == Init /\ [][NextIO]_vars

\* ------------------------------------------- the header codec on its own

RECURSIVE Pow10(_)
Pow10(e) == IF e = 0 THEN 1 ELSE 10 * Pow10(e - 1)

\* 10^e as uint64_t, e < MaxDigits
U64Pow10(e) ==
  IF e < 7 THEN <<0, 0, Pow10(e)>>
  ELSE IF e < 14 THEN <<0, Pow10(e - 7), 0>>
  ELSE <<Pow10(e - 14), 0, 0>>

\* 10^n - 1 as uint64_t, n < MaxDigits
U64Nines(n) ==
  IF n <= 7 THEN <<0, 0, Pow10(n) - 1>>
  ELSE IF n <= 14 THEN <<0, Pow10(n - 7) - 1, 9999999>>
  ELSE <<Pow10(n - 14) - 1, 9999999, 9999999>>

\* the counts tried: for every number of digits the smallest and the largest
\* count of that many digits, from 0 to UInt64Max
Counts ==
  {U64Of(0), UInt64Max}
  \cup {U64Pow10(n - 1) : n \in 1..MaxDigits}
  \cup {U64Nines(n) : n \in 1..(MaxDigits - 1)}

\* the unpadded dictionary lengths tried
DictLens ==
  0..MaxSmallDict \cup (MaxDictSize - MaxEdgeDist)..(MaxDictSize + MaxEdgeDist)

\* the layouts a stream can be open with
Layouts ==
  {lay \in Types \X (LabelChoices \cup {DefaultLabels(t) : t \in Types}) :
     InitHeader(lay[1], lay[2]).err = "none"}

InitCodec ==
  /\ pc = "unopened"
  /\ typ = 1
  /\ labels = <<>>
  /\ file = [exists |-> FALSE, bytes |-> <<>>, is_open |-> FALSE, good |-> TRUE,
             pos |-> 0, fail_after |-> NoFault]
  /\ header_end_pos = 0
  /\ values_written = 0
  /\ buffer_size = 0
  /\ buffer = [i \in 1..BufferCapacity(typ) |-> Fill(SumSizes(typ), 0)]
  /\ result = "none"
  /\ op = "none"
  /\ sent = <<>>
  /\ cin = <<>>
  /\ cout = <<>>

\* finalize_header(dict) on a dictionary of d bytes "x"
CallFinalizeHeader ==
  \E d \in DictLens :
    /\ cin = <<>>
    /\ cin' = [fn |-> "finalize_header", dict |-> Fill(d, 120)]
    /\ cout' = FinalizeHeader(Fill(d, 120))
    /\ UNCHANGED streamVars

\* init's header for a layout, then wrap_up's header for a count k
CallWrapUp ==
  \E lay \in Layouts, k \in Counts :
    LET placeholder == InitHeader(lay[1], lay[2])
    IN  /\ cin = <<>>
        /\ cin' = [fn |-> "wrap_up", typ |-> lay[1], labels |-> lay[2], k |-> k,
                   header_end_pos |-> Len(placeholder.bytes)]
        /\ cout' = PatchedHeader(k, Len(placeholder.bytes), lay[2],
                                 TupleInfo[lay[1]].data_types,
                                 TupleInfo[lay[1]].element_sizes)
        /\ UNCHANGED streamVars

\* one call of the codec per run
NextCodec == CallFinalizeHeader \/ CallWrapUp

SpecCodec == InitCodec /\ [][NextCodec]_vars

\* ------------------------------------------------------- reading the file

\* the first header_end_pos bytes of the file
HeaderRegion == SubSeq(file.bytes, 1, header_end_pos)

\* the bytes of the file from offset header_end_pos on
DataRegion == SubSeq(file.bytes, header_end_pos + 1, Len(file.bytes))

\* the number of records passed to the stream so far
RecordsSent == Len(sent) \div SumSizes(typ)

\* the records still in the buffer, as bytes
Buffered == Flatten(buffer, buffer_size)

\* the index of the last byte b of h, 0 if there is none
LastIndexOf(h, b) ==
  IF \E i \in 1..Len(h) : h[i] = b
  THEN CHOOSE i \in 1..Len(h) : h[i] = b /\ \A j \in (i + 1)..Len(h) : h[j] # b
  ELSE 0

IsDigit(b) == b >= 48 /\ b <= 57

RECURSIVE ParseDecFrom(_, _, _)
\* the decimal number whose digits start at index i of h, after acc
ParseDecFrom(h, i, acc) ==
  IF i <= Len(h) /\ IsDigit(h[i]) THEN ParseDecFrom(h, i + 1, 10 * acc + (h[i] - 48))
  ELSE acc

\* the element count a reader finds in a header: the number after the last
\* "(" of the dictionary, which opens the shape tuple; -1 if there is none
DeclaredCount(h) ==
  LET open == LastIndexOf(h, 40)
  IN  IF open = 0 \/ open = Len(h) \/ ~IsDigit(h[open + 1]) THEN 0 - 1
      ELSE ParseDecFrom(h, open + 1, 0)

\* the dictionary text of a header: from offset 10 through the last "}"
DictText(h) == SubSeq(h, 11, LastIndexOf(h, 125))

\* the header create_npy_header renders for the records sent, the count known
KnownCountHeader ==
  UpdatedHeader(U64Of(RecordsSent), labels, TupleInfo[typ].data_types,
                TupleInfo[typ].element_sizes).bytes

\* the file a writer that knows the count leaves
KnownCountFile == KnownCountHeader \o sent

\* h with its final newline moved to offset n-1 and spaces in between
PaddedTo(h, n) ==
  [i \in 1..n |-> IF i < Len(h) THEN h[i] ELSE IF i < n THEN Space ELSE Newline]

\* the magic string and the version, then zero bytes up to length n
ZeroedPlaceholder(n) ==
  [i \in 1..n |-> IF i <= 8 THEN <<147, 78, 85, 77, 80, 89, 1, 0>>[i] ELSE 0]

\* the placeholder header reached the file
PlaceholderOnDisk == file.is_open /\ Len(file.bytes) >= header_end_pos

\* ------------------------------------------------------------------- claims

\* C1: after close the element count the header declares equals the number k
\* of records appended, and the file is header_end_pos + k * record_stride
\* bytes long.
RoundTripCount ==
  pc = "closed" =>
    /\ DeclaredCount(HeaderRegion) = RecordsSent
    /\ Len(file.bytes) = header_end_pos + RecordsSent * SumSizes(typ)

\* a closed single-scalar stream that took MaxRecords records, through the
\* buffer (which filled up) and through write(span)
RoundTripCountWitness ==
  /\ pc = "closed"
  /\ typ = 1
  /\ RecordsSent = MaxRecords
  /\ buffer[BufferCapacity(typ)][1] # 0
  /\ values_written = MaxRecords

\* C3 as claimed: the file after close is byte-identical to the known-count
\* writer's file.
ByteIdenticalToKnownCount == pc = "closed" => file.bytes = KnownCountFile

\* C3 as amended: after close the data region is the records in order, and the
\* header is the known-count header with spaces inserted before its final
\* newline up to header_end_pos bytes, apart from the bytes at offsets 7 and 8,
\* which wrap_up overwrites with the header length.
EquivalentUpToPadding ==
  pc = "closed" =>
    /\ Len(KnownCountHeader) <= header_end_pos
    /\ Len(file.bytes) = Len(KnownCountFile) + (header_end_pos - Len(KnownCountHeader))
    /\ DataRegion = sent
    /\ \A i \in 1..header_end_pos :
         i \notin {8, 9} => HeaderRegion[i] = PaddedTo(KnownCountHeader, header_end_pos)[i]
    /\ DictText(HeaderRegion) = DictText(KnownCountHeader)

\* a closed stream with records whose header had to be padded
EquivalentUpToPaddingWitness ==
  /\ pc = "closed"
  /\ RecordsSent >= 2
  /\ Len(KnownCountHeader) < header_end_pos

\* C4: after close byte 6 is 1, byte 7 is 0 and bytes 8-9 hold
\* header_end_pos - 10, low byte first.
FinalizedPreamble ==
  pc = "closed" =>
    /\ file.bytes[7] = 1
    /\ file.bytes[8] = 0
    /\ file.bytes[9] + 256 * file.bytes[10] = header_end_pos - 10

RecordOrderPreserved ==
  TupleSize(typ) = 1 =>
    /\ pc = "open" => DataRegion \o Buffered = sent
    /\ pc = "closed" => DataRegion = sent

\* a closed single-scalar stream: record 1 went through the buffer (it is
\* still in slot 1) and the later ones through write(span)
RecordOrderPreservedWitness ==
  /\ pc = "closed"
  /\ TupleSize(typ) = 1
  /\ buffer[1][1] = 1
  /\ buffer[2][1] = 0
  /\ RecordsSent >= 3

\* the file at the path is as the constructor found it
FileUntouched ==
  /\ ~file.is_open
  /\ file.bytes = IF file.exists THEN OldBytes ELSE <<>>

\* C7 as claimed: a stream constructed with a number of labels that differs
\* from the number of fields fails with the layout-mismatch error, the file
\* untouched and nothing run after it.
LayoutValidation ==
  (pc # "unopened" /\ Len(labels) # TupleSize(typ)) =>
    /\ pc = "failed"
    /\ result = "LayoutMismatch"
    /\ op = "construct"
    /\ FileUntouched

\* C7 as amended: the same, except for zero labels on a single-scalar type,
\* which is the unlabelled layout.
LayoutValidationLabelled ==
  (pc # "unopened" /\ Len(labels) # TupleSize(typ)
     /\ ~(Len(labels) = 0 /\ TupleSize(typ) = 1)) =>
    /\ pc = "failed"
    /\ result = "LayoutMismatch"
    /\ op = "construct"
    /\ FileUntouched

\* a multi-field stream constructed with an empty label container, over a
\* file that was there before
LayoutValidationWitness ==
  /\ pc = "failed"
  /\ TupleSize(typ) > 1
  /\ Len(labels) = 0
  /\ file.exists

\* C8: flush_buffer on an empty buffer changes neither the file nor
\* values_written nor buffer_size, and a second flush_buffer right after a
\* first changes nothing more.
IdempotentFlush ==
  [][/\ (DoFlush(NoFaults) /\ buffer_size = 0) =>
          (file' = file /\ values_written' = values_written /\ buffer_size' = 0)
     /\ pc = "open" => FlushBuffer(FlushBuffer(Self)) = FlushBuffer(Self)]_vars

\* flush_buffer ran on a stream that has taken no record
IdempotentFlushWitness ==
  /\ pc = "open"
  /\ op = "flush"
  /\ RecordsSent = 0

\* C9: a failing open, write or seek is reported by the call it fails in, and
\* a stream whose I/O failed counts no further records.
IOFailuresSurfaced ==
  [][/\ (file.good /\ ~file'.good) => result' = "IOFailure"
     /\ ~file.good => values_written' = values_written]_vars

\* the header wrap_up renders first, for the arguments in cin
CinFresh ==
  UpdatedHeader(cin.k, cin.labels, TupleInfo[cin.typ].data_types,
                TupleInfo[cin.typ].element_sizes)

\* C2: for every layout and every count k the header rendered for shape=[k]
\* is no longer than the placeholder, so wrap_up's subtraction does not wrap
\* around, its assertion holds and the finalized header is as long as the
\* placeholder.
HeaderLengthInvariance ==
  (cin # <<>> /\ cin.fn = "wrap_up") =>
    /\ CinFresh.err = "none"
    /\ Len(CinFresh.bytes) <= cin.header_end_pos
    /\ cout.stop = "none"
    /\ Len(cout.bytes) = cin.header_end_pos

\* wrap_up ran for a count of MaxDigits digits on a structured layout
HeaderLengthInvarianceWitness ==
  /\ cin # <<>>
  /\ cin.fn = "wrap_up"
  /\ Len(ToStringU64(cin.k)) = MaxDigits
  /\ cin.k # UInt64Max
  /\ Len(cin.labels) > 1
  /\ cout.stop = "none"

\* the padded length of a dictionary of d bytes: the one length in d+1..d+16
\* that makes the header a multiple of 16 bytes
PaddedDictLen(d) == CHOOSE p \in (d + 1)..(d + 16) : (10 + p) % 16 = 0

\* C10: finalize_header adds 1 to 16 bytes, spaces and then one newline, so
\* that the header is a multiple of 16 bytes, stores the padded dictionary
\* length in the length field, and fails exactly when that length is above
\* 65535.
HeaderPadding ==
  (cin # <<>> /\ cin.fn = "finalize_header") =>
    LET d == Len(cin.dict)
        p == PaddedDictLen(d)
    IN  /\ cout.err = "HeaderTooLarge" <=> p > 65535
        /\ cout.err \in {"none", "HeaderTooLarge"}
        /\ cout.err = "none" =>
             /\ Len(cout.bytes) = 10 + p
             /\ Len(cout.bytes) % 16 = 0
             /\ SubSeq(cout.bytes, 1, 8) = <<147, 78, 85, 77, 80, 89, 1, 0>>
             /\ cout.bytes[9] + 256 * cout.bytes[10] = p
             /\ SubSeq(cout.bytes, 11, 10 + d) = cin.dict
             /\ \A i \in (10 + d + 1)..(10 + p - 1) : cout.bytes[i] = Space
             /\ cout.bytes[10 + p] = Newline

\* finalize_header padded a dictionary of 6 bytes, which fills 16 bytes with
\* the preamble, by a further 16
HeaderPaddingWitness ==
  /\ cin # <<>>
  /\ cin.fn = "finalize_header"
  /\ Len(cin.dict) = 6
  /\ cout.err = "none"
  /\ Len(cout.bytes) = 32

\* the dictionary of the placeholder header for the stream's labels, unpadded
PlaceholderDict ==
  IF Len(labels) = 0
  THEN ScalarDict(<<UInt64Max>>, TupleInfo[typ].data_types[1],
                  TupleInfo[typ].element_sizes[1], "C")
  ELSE StructuredDict(<<UInt64Max>>, labels, TupleInfo[typ].data_types,
                      TupleInfo[typ].element_sizes, "C")

\* the labels fit the record type, and the padded placeholder dictionary is
\* longer than 65535 bytes
PlaceholderTooLarge ==
  /\ Len(labels) = TupleSize(typ)
  /\ PaddedDictLen(Len(PlaceholderDict)) > 65535

\* C11: when the placeholder dictionary of a layout exceeds 65535 bytes, the
\* constructor fails with the header-too-large error while the file at the path
\* is as it was, unopened, and nothing runs on the stream afterwards.
HeaderTooLargeBeforeOutput ==
  (pc # "unopened" /\ PlaceholderTooLarge) =>
    /\ pc = "failed"
    /\ result = "HeaderTooLarge"
    /\ op = "construct"
    /\ FileUntouched
    /\ values_written = 0

\* a two-field stream constructed with a label of 65535 bytes, over a file
\* that was there before
HeaderTooLargeBeforeOutputWitness ==
  /\ pc = "failed"
  /\ result = "HeaderTooLarge"
  /\ TupleSize(typ) = 2
  /\ Len(labels) = 2
  /\ file.exists
  /\ file.bytes = OldBytes

\* the number of whole records in the data region
RecordsOnDisk == Len(DataRegion) \div SumSizes(typ)

\* the buffer is never left full, and every record counted is in the file or
\* in the buffer
BufferAccounted ==
  pc = "open" =>
    /\ 0 <= buffer_size
    /\ buffer_size < BufferCapacity(typ)
    /\ Len(DataRegion) = RecordsOnDisk * SumSizes(typ)
    /\ values_written = RecordsOnDisk + buffer_size

\* C12: after every completed operation on an open stream
\* 0 <= buffer_size < buffer_capacity and values_written is the number of
\* records in the data region plus buffer_size; operator<< adds exactly 1 to
\* values_written and write(span) of n elements exactly n.
BufferAccounting ==
  [][/\ BufferAccounted'
     /\ DoAppend(NoFaults, MaxRecords) => values_written' = values_written + 1
     /\ \A n \in 0..MaxBlock :
          (DoWriteSpan(NoFaults, MaxRecords) /\ Len(sent') = Len(sent) + n * SumSizes(typ))
            => values_written' = values_written + n]_vars

\* operator<< ran on the stream whose buffer holds one record: the record
\* filled the buffer and went to the file within the call
BufferAccountingWitness ==
  /\ pc = "open"
  /\ op = "append"
  /\ BufferCapacity(typ) = 1
  /\ buffer_size = 0
  /\ values_written = 2
  /\ RecordsOnDisk = 2

\* the placeholder as init left it in the file, for the stream's layout
WrittenPlaceholder == ZeroFrom8(InitHeader(typ, labels).bytes)

\* C13: while the stream stays open, no operator<<, write or flush_buffer call
\* changes header_end_pos or a byte of the file below header_end_pos: the file
\* before the call is a prefix of the file after it, what the call writes
\* starts at the old end of the file, which is at or above header_end_pos, and
\* the header region still holds what init wrote.  A step that changes the
\* header region is the close step.
HeaderFrozenWhileOpen ==
  [][(pc = "open" /\ pc' = "open") =>
       /\ header_end_pos' = header_end_pos
       /\ HeaderRegion' = HeaderRegion
       /\ HeaderRegion' = WrittenPlaceholder
       /\ file.pos = Len(file.bytes)
       /\ Len(file.bytes) >= header_end_pos
       /\ Len(file'.bytes) >= Len(file.bytes)
       /\ SubSeq(file'.bytes, 1, Len(file.bytes)) = file.bytes
       /\ file'.pos = Len(file'.bytes)]_vars

\* write(begin, end) ran on a stream that has records in the file and records
\* in the buffer, and the header region is the placeholder still
HeaderFrozenWhileOpenWitness ==
  /\ pc = "open"
  /\ op = "write_range"
  /\ Len(DataRegion) > 0
  /\ buffer_size > 0
  /\ Len(file.bytes) > header_end_pos
  /\ HeaderRegion = WrittenPlaceholder

\* the header wrap_up is to write for the stream as it is
ClosingHeader ==
  PatchedHeader(U64Of(values_written), header_end_pos, labels,
                TupleInfo[typ].data_types, TupleInfo[typ].element_sizes)

\* C14: the close step puts the records still in the buffer at the end of the
\* data region, behind the records already there, and then writes the patched
\* header from offset 0: the header is header_end_pos bytes long, the put
\* position ends at header_end_pos, the data region is the old one followed by
\* the buffered records and the file is as long as the buffer flush left it.
CloseOrderAndFootprint ==
  [][(pc = "open" /\ pc' = "closed") =>
       /\ ClosingHeader.stop = "none"
       /\ Len(ClosingHeader.bytes) = header_end_pos
       /\ HeaderRegion' = ClosingHeader.bytes
       /\ DataRegion' = DataRegion \o Buffered
       /\ Len(file'.bytes) = Len(file.bytes) + Len(Buffered)
       /\ Len(file'.bytes) = Len(FlushBuffer(Self).file.bytes)
       /\ file'.pos = header_end_pos
       /\ buffer_size' = 0]_vars

\* a stream with a buffer of eight was closed after nine records, of which
\* the ninth went through the buffer, behind eight in the file
CloseOrderAndFootprintWitness ==
  /\ pc = "closed"
  /\ op = "close"
  /\ BufferCapacity(typ) = 8
  /\ values_written = 9
  /\ buffer[1] = FillSlot(typ, TupleOf(typ, 9))
  /\ file.pos = header_end_pos
  /\ DataRegion = sent
  /\ HeaderRegion # WrittenPlaceholder

\* the stream after flush_buffer and wrap_up run on it once more, with the
\* members as they are
FinalizedAgain == Destroy(Self, typ, header_end_pos, labels)

\* C15: on a stream that was just closed, flush_buffer followed by wrap_up
\* with the same values_written, header_end_pos and layout leaves every byte
\* of the file as the first run left it.
FinalizeIdempotent ==
  pc = "closed" =>
    /\ FinalizedAgain.file.bytes = file.bytes
    /\ FinalizedAgain.file.pos = file.pos
    /\ FinalizedAgain.values_written = values_written
    /\ FinalizedAgain.buffer_size = 0

\* a closed stream of two fields with records in its file, whose header is
\* the patched one
FinalizeIdempotentWitness ==
  /\ pc = "closed"
  /\ TupleSize(typ) = 2
  /\ values_written = 3
  /\ Len(DataRegion) = 3 * SumSizes(typ)
  /\ HeaderRegion = ClosingHeader.bytes
  /\ file.good

\* C16: for every layout and count k the header wrap_up is to write has the
\* dictionary text, "{" through the closing "}", of the header rendered for
\* shape = [k]; only spaces follow it up to the last byte, which is a newline;
\* and the header_end_pos - rendered length bytes it is longer by are spaces
\* that stand where the rendered header had its newline and after, directly
\* before the newline.
PatchKeepsDictionary ==
  (cin # <<>> /\ cin.fn = "wrap_up") =>
    LET fresh == CinFresh.bytes
        h == cout.bytes
        close == LastIndexOf(h, 125)
        extra == cin.header_end_pos - Len(fresh)
    IN  /\ cout.stop = "none"
        /\ extra >= 0
        /\ Len(h) = Len(fresh) + extra
        /\ close = LastIndexOf(fresh, 125)
        /\ close > 11
        /\ h[11] = 123
        /\ DictText(h) = DictText(fresh)
        /\ \A i \in (close + 1)..(Len(h) - 1) : h[i] = Space
        /\ h[Len(h)] = Newline
        /\ \A i \in 11..(Len(fresh) - 1) : h[i] = fresh[i]
        /\ \A i \in Len(fresh)..(Len(fresh) + extra - 1) : h[i] = Space

\* wrap_up ran for a count whose rendered header is shorter than the
\* placeholder of a structured layout, so spaces were inserted
PatchKeepsDictionaryWitness ==
  /\ cin # <<>>
  /\ cin.fn = "wrap_up"
  /\ Len(cin.labels) > 1
  /\ cout.stop = "none"
  /\ Len(CinFresh.bytes) < cin.header_end_pos
  /\ cout.bytes[Len(CinFresh.bytes)] = Space
  /\ cout.bytes[cin.header_end_pos] = Newline

====
